---------------------------- MODULE Spec2Model ----------------------------
(***************************************************************************)
(* FocusFerry: the unified content feed (data/content_feed.json), the RSS  *)
(* batch file the integrator reads (data/rss/openai_articles.json), the    *)
(* merge (content_integrator.integrate_rss_to_content_feed), the           *)
(* enrichment pass (content_summarizer.summarize_rss_articles), the RSS    *)
(* collector that produces the batch (rss_collector.RSSCollector), the     *)
(* pipeline that runs them (unified_collector.UnifiedContentCollector and  *)
(* its main), and the two other writers of the feed file                   *)
(* (ai_summarizer.save_summary_to_feed, migrate_to_unified).               *)
(*                                                                         *)
(* Strings the code builds, compares or sorts (ids, published_at, source   *)
(* names, URL paths) are sequences of one-character strings, compared by   *)
(* code point as Python compares str.  Text the code only copies (titles,  *)
(* descriptions, summaries) is an opaque TLA+ string.  Fields the code     *)
(* copies and no operation reads (collected_at, the source attribute bag)  *)
(* are left out of the records.                                            *)
(***************************************************************************)
EXTENDS Integers, Sequences, FiniteSets, TLC

(* ------------------------------ bounds -------------------------------- *)
MaxClock == 1      \* datetime.now() takes the values 0..MaxClock
MaxBatch == 2      \* <item> elements in one fetched RSS document
MaxFeed  == 2      \* items in content_feed.json
MaxOther == 1      \* <item> elements in one fetched document of the other feed
MaxVideos == 1     \* videos one fetch of the channel finds

(* ------------------------------ strings ------------------------------- *)
\* the characters in use, in code point order
AsciiOrder ==
  << " ", "!", "+", "-", ".", "/",
     "0", "1", "2", "3", "4", "5", "6", "7", "8", "9", ":",
     "A", "B", "C", "D", "E", "F", "G", "H", "I", "J", "K", "L", "M",
     "N", "O", "P", "Q", "R", "S", "T", "U", "V", "W", "X", "Y", "Z",
     "_",
     "a", "b", "c", "d", "e", "f", "g", "h", "i", "j", "k", "l", "m",
     "n", "o", "p", "q", "r", "s", "t", "u", "v", "w", "x", "y", "z" >>

Chars == { AsciiOrder[i] : i \in 1..Len(AsciiOrder) }

Code == [ c \in Chars |-> CHOOSE i \in 1..Len(AsciiOrder) : AsciiOrder[i] = c ]

Digit == << "0", "1", "2", "3", "4", "5", "6", "7", "8", "9" >>

DigitChar(n) == Digit[n + 1]

DigitVal(c) == Code[c] - Code["0"]

\* Python's str < str: the first differing code point decides, a proper
\* prefix is smaller
RECURSIVE StrLess(_, _)
StrLess(s, t) ==
  IF t = << >> THEN FALSE
  ELSE IF s = << >> THEN TRUE
  ELSE IF Head(s) = Head(t) THEN StrLess(Tail(s), Tail(t))
  ELSE Code[Head(s)] < Code[Head(t)]

StrLeq(s, t) == s = t \/ StrLess(s, t)

StartsWith(s, p) == Len(s) >= Len(p) /\ SubSeq(s, 1, Len(p)) = p

\* str.replace(sub, ''): every occurrence, left to right
RECURSIVE Remove(_, _)
Remove(s, sub) ==
  IF s = << >> THEN << >>
  ELSE IF StartsWith(s, sub) THEN Remove(SubSeq(s, Len(sub) + 1, Len(s)), sub)
  ELSE << Head(s) >> \o Remove(Tail(s), sub)

\* str.split('/')[-1]: what follows the last '/'
RECURSIVE LastSegment(_)
LastSegment(s) ==
  IF s = << >> THEN << >>
  ELSE IF s[Len(s)] = "/" THEN << >>
  ELSE LastSegment(SubSeq(s, 1, Len(s) - 1)) \o << s[Len(s)] >>

UpperLetters == SubSeq(AsciiOrder, 18, 43)
LowerLetters == SubSeq(AsciiOrder, 45, 70)

\* str.lower() on one character
LowerChar(c) ==
  IF \E i \in 1..26 : UpperLetters[i] = c
  THEN LowerLetters[CHOOSE i \in 1..26 : UpperLetters[i] = c]
  ELSE c

Lower(s) == [ i \in 1..Len(s) |-> LowerChar(s[i]) ]

\* the class [a-zA-Z0-9]
IsAlnum(c) ==
  \/ \E i \in 1..26 : UpperLetters[i] = c \/ LowerLetters[i] = c
  \/ \E i \in 1..10 : Digit[i] = c

\* re.sub(r'[^a-zA-Z0-9]+', '_', s): each maximal run outside the class
\* becomes one underscore
RECURSIVE SubNonAlnum(_, _)
SubNonAlnum(s, inRun) ==
  IF s = << >> THEN << >>
  ELSE IF IsAlnum(Head(s)) THEN << Head(s) >> \o SubNonAlnum(Tail(s), FALSE)
  ELSE IF inRun THEN SubNonAlnum(Tail(s), TRUE)
  ELSE << "_" >> \o SubNonAlnum(Tail(s), TRUE)

\* str.strip('_')
RECURSIVE StripUnderscore(_)
StripUnderscore(s) ==
  IF s = << >> THEN << >>
  ELSE IF Head(s) = "_" THEN StripUnderscore(Tail(s))
  ELSE IF s[Len(s)] = "_" THEN StripUnderscore(SubSeq(s, 1, Len(s) - 1))
  ELSE s

\* UnifiedContentCollector._normalize_source_name
NormalizeSourceName(name) == StripUnderscore(SubNonAlnum(Lower(name), FALSE))


(* ------------------------- the RSS documents --------------------------- *)
\* A link is what urlparse sees of it: the network location, the path and
\* the query string.  The empty link is the <link> that is missing or empty.
NoLink == [ host |-> << >>, path |-> << >>, query |-> << >> ]

OpenAiHost == << "o", "p", "e", "n", "a", "i", ".", "c", "o", "m" >>

LinkBlogIntro     == [ host |-> OpenAiHost, path |-> << "/", "b", "l", "o", "g", "/", "i", "n", "t", "r", "o", ".", "h", "t", "m", "l" >>, query |-> << >> ]
LinkResearchIntro == [ host |-> OpenAiHost, path |-> << "/", "r", "e", "s", "e", "a", "r", "c", "h", "/", "i", "n", "t", "r", "o" >>, query |-> << >> ]
LinkRoot          == [ host |-> OpenAiHost, path |-> << "/" >>, query |-> << >> ]

Links == << LinkBlogIntro, LinkResearchIntro, LinkRoot >>

\* A pubDate is an RFC 822 date (hour of the day, sign and hours of the zone
\* offset), or empty, or text that is no date.
PubDate(hour, sign, off) == [ kind |-> "rfc822", hour |-> hour, sign |-> sign, off |-> off ]
NoPubDate == [ kind |-> "empty", hour |-> 0, sign |-> "+", off |-> 0 ]

\* The <item> elements a fetched document can hold.  guid names the source
\* article an element stands for (it is not read by the code).
RssItems ==
  { [ guid |-> 1, link |-> LinkBlogIntro,     title |-> "A", description |-> "a", pubDate |-> PubDate(2, "+", 0) ],
    [ guid |-> 2, link |-> LinkResearchIntro, title |-> "B", description |-> "b", pubDate |-> PubDate(3, "+", 2) ],
    [ guid |-> 3, link |-> NoLink,            title |-> "C", description |-> "c", pubDate |-> PubDate(2, "+", 0) ] }

\* channel.findall('item')[:max_items]: the elements of one document, no
\* element twice
RssDocuments ==
  { d \in UNION { [ 1..n -> RssItems ] : n \in 0..MaxBatch } :
      \A i, j \in DOMAIN d : i # j => d[i] # d[j] }

(* ---------------------------- rss_collector ---------------------------- *)
\* datetime.isoformat() of an aware datetime: "...THH:00:00+OO:00"; of the
\* characters only the hour digit, the sign and the offset digit differ
\* between two values, and they are what is kept, in their order
IsoAware(hour, sign, off) == << DigitChar(hour), sign, DigitChar(off) >>

\* datetime.now().isoformat(): naive local time with microseconds,
\* "...THH:00:00.ffffff"
IsoNow(now) == << DigitChar(now), "." >>

\* RSSCollector.parse_date
parse_date(date_string, now) ==
  IF date_string.kind = "empty" THEN IsoNow(now)
  ELSE IF date_string.kind = "rfc822"
       THEN IsoAware(date_string.hour, date_string.sign, date_string.off)
       ELSE IsoNow(now)

\* hashlib.md5(url.encode()).hexdigest()[:12], taken to be free of
\* collisions: one value per link
Md5Hex12(url) == << "h", DigitChar(CHOOSE i \in 1..Len(Links) : Links[i] = url) >>

\* datetime.now().strftime('%Y%m%d_%H%M%S')
StrfTime(now) == << "t", DigitChar(now) >>

DotHtml == << ".", "h", "t", "m", "l" >>
DotPhp  == << ".", "p", "h", "p" >>

RssPrefix == << "r", "s", "s", "_" >>

\* generate_article_id with the timestamp id for every url
generate_article_id_Timestamp(url, now) == RssPrefix \o StrfTime(now)

\* RSSCollector.generate_article_id
generate_article_id(url, now) ==
  IF url = NoLink THEN RssPrefix \o StrfTime(now)
  ELSE LET path == url.path
           article_id == LastSegment(path)
       IN IF /\ path # << >>
             /\ Len(path) > 1
             /\ article_id # << >>
             /\ Len(article_id) > 3
          THEN Remove(Remove(article_id, DotHtml), DotPhp)
          ELSE RssPrefix \o Md5Hex12(url)

\* RSSCollector.parse_rss_item: the article dict of one <item>; missing is
\* the set of keys the dict does not have
parse_rss_item(item, now) ==
  [ article_id   |-> generate_article_id(item.link, now),
    title        |-> item.title,
    description  |-> item.description,
    url          |-> item.link,
    published_at |-> parse_date(item.pubDate, now),
    guid         |-> item.guid,
    missing      |-> {} ]


(* ------------------------------- state --------------------------------- *)
VARIABLES
  feedFile,   \* data/content_feed.json
  rssFile,    \* data/rss/openai_articles.json
  clock,      \* the last value datetime.now() returned
  last,       \* the operation that ran last and what it returned
  prevFeed,   \* data/content_feed.json as it was when that operation began
  otherFile,  \* data/rss/<source_name>_articles.json of the other RSS feed
  run         \* the locals of run_full_pipeline while it runs, and its result

vars == << feedFile, rssFile, clock, last, prevFeed, otherFile, run >>

\* 'ai_summary' / 'summarized_at' not in the dict
NoSummary == "<none>"
NoTime    == -1

NoFeedFile == [ state |-> "absent", generated_at |-> 0, total_items |-> 0, items |-> << >> ]
NoRssFile  == [ state |-> "absent", source_name |-> << >>, articles |-> << >> ]

OpenAiSource == << "o", "p", "e", "n", "a", "i" >>

\* the names of the RSS feeds config/default.yaml enables
FeedNames == { << "O", "p", "e", "n", "A", "I" >> }

\* another RSS feed the configuration enables
OtherFeedNames == { << "A", "I", " ", "N", "e", "w", "s" >> }

OtherSource == << "a", "i", "_", "n", "e", "w", "s" >>

\* the summaries the provider returns
Summaries == { "ok" }

\* no articles file of the other feed
NoOtherFile == NoRssFile

\* the interpreter has not ended
NoExit == -1

\* run_full_pipeline is not running and has not returned; results is the
\* dict of collect_all_content, and fetched what its adapters met source by
\* source
NoRun ==
  [ stage               |-> "idle",
    rss_feeds           |-> {},
    youtube_successful  |-> 0,
    integration_success |-> FALSE,
    summary_success     |-> FALSE,
    overall_success     |-> FALSE,
    exit_code           |-> NoExit,
    results             |-> [ rss_feeds |-> << >>, youtube_channels |-> << >> ],
    fetched             |-> [ youtube_collector |-> TRUE,
                              rss_feeds |-> << >>, youtube_channels |-> << >> ] ]

\* what is kept of an operation: its name, what it returned ("raise" for an
\* exception that left it), whether it repeated the run before it, and for an
\* enrichment pass the positions of the items it passed to the provider
\* (called) and of the items the provider has a summary for (ok)
Returned(op, ret, again) ==
  [ op |-> op, ret |-> ret, again |-> again, called |-> {}, ok |-> {} ]


(* --------------------------- content_integrator ------------------------ *)
\* the id set comprehension of line 44, on any sequence of items
Ids(items) == { items[i].id : i \in DOMAIN items }

\* line 48: f"rss_{rss_data['source_name']}_{article['article_id']}"
unified_id(source_name, article) ==
  RssPrefix \o source_name \o << "_" >> \o article.article_id

\* lines 56-75: the feed item of a new article
unified_item(source_name, article) ==
  [ id            |-> unified_id(source_name, article),
    platform      |-> "rss",
    title         |-> article.title,
    description   |-> article.description,
    url           |-> article.url,
    thumbnail_url |-> "",
    published_at  |-> article.published_at,
    ai_summary    |-> NoSummary,
    summarized_at |-> NoTime,
    guid          |-> article.guid ]

\* the loop body of lines 46-78 raises KeyError on this article: the id needs
\* article_id, the skip message needs title, a new item needs every key
Raises(source_name, article, existing_ids) ==
  \/ "article_id" \in article.missing
  \/ IF unified_id(source_name, article) \in existing_ids
     THEN "title" \in article.missing
     ELSE article.missing # {}

\* new_items without the skip of lines 50-53
RECURSIVE NewItems_NoSkip(_, _, _)
NewItems_NoSkip(source_name, articles, existing_ids) ==
  IF articles = << >> THEN << >>
  ELSE << unified_item(source_name, Head(articles)) >>
         \o NewItems_NoSkip(source_name, Tail(articles), existing_ids)

\* the new_items list of lines 43-78 when no article raises
RECURSIVE NewItems(_, _, _)
NewItems(source_name, articles, existing_ids) ==
  IF articles = << >> THEN << >>
  ELSE LET article == Head(articles)
           rest == NewItems(source_name, Tail(articles), existing_ids)
       IN IF unified_id(source_name, article) \in existing_ids
          THEN rest
          ELSE << unified_item(source_name, article) >> \o rest

\* list.sort(key=published_at, reverse=True): stable, the items of equal key
\* keep their order
RECURSIVE InsertByDate(_, _)
InsertByDate(sorted, x) ==
  IF sorted = << >> THEN << x >>
  ELSE IF StrLess(Head(sorted).published_at, x.published_at)
       THEN << x >> \o sorted
       ELSE << Head(sorted) >> \o InsertByDate(Tail(sorted), x)

RECURSIVE SortByDate(_)
SortByDate(items) ==
  IF items = << >> THEN << >>
  ELSE InsertByDate(SortByDate(SubSeq(items, 1, Len(items) - 1)), items[Len(items)])

\* the written feed with total_items left as it was loaded
MergedFeed_StaleTotal(content_feed, new_items, now) ==
  LET items == SortByDate(content_feed.items \o new_items)
  IN [ state        |-> "ok",
       generated_at |-> now,
       total_items  |-> content_feed.total_items,
       items        |-> items ]

\* the written feed with the new items in place of the stored ones
MergedFeed_OnlyNew(content_feed, new_items, now) ==
  LET items == SortByDate(new_items)
  IN [ state        |-> "ok",
       generated_at |-> now,
       total_items  |-> Len(items),
       items        |-> items ]

\* lines 84-95: the feed that is written
MergedFeed(content_feed, new_items, now) ==
  LET items == SortByDate(content_feed.items \o new_items)
  IN [ state        |-> "ok",
       generated_at |-> now,
       total_items  |-> Len(items),
       items        |-> items ]

\* what is on disk of a document when the process is killed between the
\* open(path, 'w') and the end of json.dump: a proper prefix of its text
TornFiles(document) ==
  { [ document EXCEPT !.state = "torn", !.items = SubSeq(document.items, 1, n) ] :
      n \in 0..(Len(document.items) - 1) }

\* integrate_rss_to_content_feed, from the load to the return, reading the
\* articles file rss; again tells that it ran on this file just before.
\* json.load raises on a feed file that is not a complete JSON document.
\* With crash the process is killed in the write of lines 98-99.
IntegrateSaving(rss, again, crash) ==
    LET now          == clock
        content_feed == IF feedFile.state = "ok" THEN feedFile
                        ELSE [ NoFeedFile EXCEPT !.generated_at = now ]
        existing_ids == Ids(content_feed.items)
        source_name  == rss.source_name
        articles     == rss.articles
        raised       == \E i \in DOMAIN articles :
                          Raises(source_name, articles[i], existing_ids)
        new_items    == NewItems(source_name, articles, existing_ids)
    IN /\ prevFeed' = feedFile
       /\ UNCHANGED clock
       /\ IF feedFile.state = "torn"
          THEN /\ ~crash
               /\ last' = Returned("integrate", "raise", again)
               /\ UNCHANGED feedFile
          ELSE IF rss.state = "absent"
          THEN /\ ~crash
               /\ last' = Returned("integrate", "False", again)
               /\ UNCHANGED feedFile
          ELSE IF raised
          THEN /\ ~crash
               /\ last' = Returned("integrate", "raise", again)
               /\ UNCHANGED feedFile
          ELSE IF new_items = << >>
          THEN /\ ~crash
               /\ last' = Returned("integrate", "True", again)
               /\ UNCHANGED feedFile
          ELSE /\ Len(content_feed.items) + Len(new_items) <= MaxFeed
               /\ IF crash
                  THEN /\ last' = Returned("integrate", "killed", again)
                       /\ feedFile' \in TornFiles(MergedFeed(content_feed, new_items, now))
                  ELSE /\ last' = Returned("integrate", "True", again)
                       /\ feedFile' = MergedFeed(content_feed, new_items, now)

\* the run that is not killed
IntegrateWith(rss, again) == IntegrateSaving(rss, again, FALSE)

\* the integrator run on its own
Integrate ==
  /\ IntegrateWith(rssFile, last.op = "integrate")
  /\ UNCHANGED << rssFile, otherFile, run >>

(* ------------------------- collecting the batch ------------------------ *)
\* RSSCollector.save_articles_to_json: the file for source_name
ArticlesFile(source_name, articles) ==
  [ state |-> "ok", source_name |-> source_name, articles |-> articles ]

\* the calls of _normalize_source_name and parse_rss_item, tabulated
SourceNameOf == [ name \in FeedNames \cup OtherFeedNames |-> NormalizeSourceName(name) ]

ArticleOf == [ item \in RssItems, now \in 0..MaxClock |-> parse_rss_item(item, now) ]

\* RSSCollector.collect_from_feed for the feed name and the fetched document
\* doc (a failed fetch is the document without elements): the articles file
\* of the integrator as the call leaves it
CollectedFile(name, doc) ==
  LET source_name == SourceNameOf[name]
      articles    == [ i \in DOMAIN doc |-> ArticleOf[doc[i], clock] ]
  IN IF articles # << >> /\ source_name = OpenAiSource
     THEN ArticlesFile(source_name, articles)
     ELSE rssFile

\* the collector run for one enabled feed
Collect ==
  \E name \in FeedNames, doc \in RssDocuments :
    /\ rssFile' = CollectedFile(name, doc)
    /\ last' = Returned("collect", IF doc = << >> THEN "None" ELSE "file", FALSE)
    /\ prevFeed' = feedFile
    /\ UNCHANGED << feedFile, clock, otherFile, run >>

\* run_full_pipeline, steps 1 and 2: the collection and then the merge of
\* what the articles file holds after it
CollectAndIntegrate ==
  \E name \in FeedNames, doc \in RssDocuments :
    /\ rssFile' = CollectedFile(name, doc)
    /\ IntegrateWith(CollectedFile(name, doc), FALSE)
    /\ UNCHANGED << otherFile, run >>

\* An articles file this collector did not write as it stands: one article
\* dict lacks a key the integrator reads.
MalformedKeys == { "published_at", "article_id" }

StageMalformed ==
  /\ rssFile.state = "ok"
  /\ \A i \in DOMAIN rssFile.articles : rssFile.articles[i].missing = {}
  /\ \E bad \in DOMAIN rssFile.articles, key \in MalformedKeys :
       rssFile' = [ rssFile EXCEPT !.articles[bad].missing = { key } ]
  /\ prevFeed' = feedFile
  /\ last' = Returned("stage", "file", FALSE)
  /\ UNCHANGED << feedFile, clock, otherFile, run >>

(* --------------------------- content_summarizer ------------------------ *)
\* the candidates with the test of 'ai_summary' left out
Candidates_All(items) ==
  { i \in DOMAIN items : items[i].platform = "rss" }

\* lines 97-102: the positions of the RSS articles without summary
Candidates(items) ==
  { i \in DOMAIN items :
      items[i].platform = "rss" /\ items[i].ai_summary = NoSummary }

\* the loop left by the first exception of a call
Called_AbortOnError(rss_articles, result) ==
  { i \in rss_articles :
      \A j \in rss_articles : j < i => result[j] # NoSummary }

\* lines 112-135: the candidates the loop passes to the provider, every one
\* of them, as an exception of a call is caught inside the loop body
Called(rss_articles, result) == rss_articles

\* the items after the loop with the list of candidates saved as the items
SummarizedItems_OnlyCandidates(items, done, result, now) ==
  LET all  == [ i \in DOMAIN items |->
                  IF i \in done
                  THEN [ items[i] EXCEPT !.ai_summary = result[i], !.summarized_at = now ]
                  ELSE items[i] ]
  IN SelectSeq(all, LAMBDA x : \E i \in DOMAIN result : all[i] = x)

\* the items after a loop that stamps every candidate, summarized or not
SummarizedItems_StampAll(items, done, result, now) ==
  [ i \in DOMAIN items |->
      IF i \in done
      THEN [ items[i] EXCEPT !.ai_summary = result[i], !.summarized_at = now ]
      ELSE IF i \in DOMAIN result
      THEN [ items[i] EXCEPT !.summarized_at = now ]
      ELSE items[i] ]

\* lines 127-129: the items after the loop; done are the positions of the
\* candidates whose call returned a summary
SummarizedItems(items, done, result, now) ==
  [ i \in DOMAIN items |->
      IF i \in done
      THEN [ items[i] EXCEPT !.ai_summary = result[i], !.summarized_at = now ]
      ELSE items[i] ]

\* the value returned when it tells that every candidate was summarized
SummarizedReturn_AllOrNothing(summarized_count, candidates) ==
  IF summarized_count = candidates THEN "True" ELSE "False"

\* the value returned when the pass reports success whatever the count
SummarizedReturn_AlwaysTrue(summarized_count, candidates) == "True"

\* line 148: the value summarize_rss_articles returns after the loop
SummarizedReturn(summarized_count, candidates) ==
  IF summarized_count > 0 THEN "True" ELSE "False"

\* summarize_rss_articles: result maps each candidate to the summary the
\* provider has for it, or to NoSummary when the call raises.  open() raises
\* when the feed file is absent, json.load when it is not a JSON document.
\* With crash the process is killed in the write of save_content_feed.
SummarizeSaving(crash) ==
  LET now == clock IN
    /\ prevFeed' = feedFile
    /\ UNCHANGED << rssFile, clock >>
    /\ IF feedFile.state # "ok"
       THEN /\ ~crash
            /\ last' = Returned("summarize", "raise", FALSE)
            /\ UNCHANGED feedFile
       ELSE LET rss_articles == Candidates(feedFile.items)
            IN IF rss_articles = {}
               THEN /\ ~crash
                    /\ last' = Returned("summarize", "True", FALSE)
                    /\ UNCHANGED feedFile
               ELSE \E result \in [ rss_articles -> Summaries \cup { NoSummary } ] :
                      LET ok     == { i \in rss_articles : result[i] # NoSummary }
                          called == Called(rss_articles, result)
                          done   == called \cap ok
                          items  == SummarizedItems(feedFile.items, done, result, now)
                          ret    == SummarizedReturn(Cardinality(done), Cardinality(rss_articles))
                          saved  == [ feedFile EXCEPT !.items = items, !.generated_at = now ]
                      IN /\ last' = [ Returned("summarize", IF crash THEN "killed" ELSE ret, FALSE)
                                        EXCEPT !.called = called, !.ok = ok ]
                         /\ IF done = {}
                            THEN ~crash /\ UNCHANGED feedFile
                            ELSE IF crash
                            THEN feedFile' \in TornFiles(saved)
                            ELSE feedFile' = saved

\* the pass that is not killed
summarize_rss_articles == SummarizeSaving(FALSE)

\* the enrichment pass run on its own
Summarize ==
  /\ summarize_rss_articles
  /\ UNCHANGED << otherFile, run >>

\* summarize_rss_articles left in the loop of lines 112-135 by a
\* KeyboardInterrupt or the end of the process, which except Exception does
\* not catch, while the call for the candidate at is under way: the
\* candidates before it were called, the summaries of the successful ones are
\* in content_data, and no statement after the loop runs
SummarizeInterrupted ==
  /\ feedFile.state = "ok"
  /\ \E at \in Candidates(feedFile.items) :
       LET before == { i \in Candidates(feedFile.items) : i < at }
       IN \E result \in [ before -> Summaries \cup { NoSummary } ] :
            last' = [ Returned("summarize", "interrupted", FALSE)
                        EXCEPT !.called = before \cup { at },
                               !.ok = { i \in before : result[i] # NoSummary } ]
  /\ prevFeed' = feedFile
  /\ UNCHANGED << feedFile, rssFile, clock, otherFile, run >>

(* --------------------------- the persisted feed ------------------------ *)
\* f"https://youtube.com/watch?v={video['video_id']}"
VideoLink ==
  [ host  |-> << "y", "o", "u", "t", "u", "b", "e", ".", "c", "o", "m" >>,
    path  |-> << "/", "w", "a", "t", "c", "h" >>,
    query |-> << "v", "1" >> ]

\* the feed item of a video, as migrate_to_unified builds it and as
\* ai_summarizer.main finds it before it has a summary ('ai_summary' not in
\* video_item['content']); published_at is the hour of a UTC time, "...Z"
VideoItem ==
  [ id            |-> << "y", "o", "u", "t", "u", "b", "e", "_", "v", "1" >>,
    platform      |-> "youtube",
    title         |-> "V",
    description   |-> "v",
    url           |-> VideoLink,
    thumbnail_url |-> "jpg",
    published_at  |-> << "1", "Z" >>,
    ai_summary    |-> NoSummary,
    summarized_at |-> NoTime,
    guid          |-> 5 ]

\* the items a feed file can hold when a run begins: the articles of earlier
\* merges and the video, each with or without the summary of an earlier
\* enrichment
StoredItems ==
  LET fresh == { unified_item(OpenAiSource, ArticleOf[item, 0]) : item \in RssItems }
                 \cup { VideoItem }
  IN fresh \cup { [ x EXCEPT !.ai_summary = "ok", !.summarized_at = 0 ] : x \in fresh }

\* the feed files a run can find: the items newest first by published_at as
\* the merge and the migration sort them, no id twice, total_items their
\* number
PersistedFeeds ==
  { [ state |-> "ok", generated_at |-> 0, total_items |-> Len(items), items |-> items ] :
      items \in { seq \in UNION { [ 1..n -> StoredItems ] : n \in 0..MaxFeed } :
                    /\ Len(seq) = Cardinality(Ids(seq))
                    /\ seq = SortByDate(seq) } }

(* ------------------- migrate_to_unified, ai_summarizer ----------------- *)
\* migrate_youtube_to_unified: content_feed.json is written anew from the
\* videos file, a video without 'ai_summary' skipped (lines 32-34), a video
\* with it given its summary and the summarized_at of the videos file
Migrate ==
  /\ \E videos \in { << >>, << [ VideoItem EXCEPT !.ai_summary = "ok", !.summarized_at = 0 ] >> } :
       feedFile' = [ state |-> "ok", generated_at |-> clock,
                     total_items |-> Len(videos), items |-> SortByDate(videos) ]
  /\ last' = Returned("migrate", "None", FALSE)
  /\ prevFeed' = feedFile
  /\ UNCHANGED << rssFile, clock, otherFile, run >>

\* the items after the summary alone is attached to the first item of the
\* feed, whatever its id
SavedSummary_AnyItem(items, video_item_id, summary, now) ==
  [ i \in DOMAIN items |->
      IF i = 1 THEN [ items[i] EXCEPT !.ai_summary = summary ] ELSE items[i] ]

\* save_summary_to_feed, lines 57-61: the first item of the id gets the
\* summary and the time
SavedSummary(items, video_item_id, summary, now) ==
  [ i \in DOMAIN items |->
      IF items[i].id = video_item_id /\ \A j \in 1..(i - 1) : items[j].id # video_item_id
      THEN [ items[i] EXCEPT !.ai_summary = summary, !.summarized_at = now ]
      ELSE items[i] ]

\* ai_summarizer.main for the video of VideoItem: get_video_info raises when
\* the feed file cannot be read or has no item of the id, the provider
\* returns a summary or raises (NoSummary); main catches the exception,
\* else save_summary_to_feed writes the feed, whether or not the item had a
\* summary
SaveVideoSummary ==
  /\ \E summary \in Summaries \cup { NoSummary } :
       IF \/ feedFile.state # "ok"
          \/ VideoItem.id \notin Ids(feedFile.items)
          \/ summary = NoSummary
       THEN /\ last' = Returned("ai_summarizer", "error", FALSE)
            /\ UNCHANGED feedFile
       ELSE /\ last' = Returned("ai_summarizer", "saved", FALSE)
            /\ feedFile' = [ feedFile EXCEPT
                               !.items = SavedSummary(feedFile.items, VideoItem.id, summary, clock),
                               !.generated_at = clock ]
  /\ prevFeed' = feedFile
  /\ UNCHANGED << rssFile, clock, otherFile, run >>

(* --------------------------- unified_collector ------------------------- *)
\* the articles file of source_name after _collect_rss_feeds has fetched the
\* document docs[name] for every feed of feeds: collect_from_feed writes the
\* file when the document has an element and leaves it otherwise
FileAfter(file, source_name, feeds, docs) ==
  LET names == { name \in feeds : SourceNameOf[name] = source_name /\ docs[name] # << >> }
  IN IF names = {} THEN file
     ELSE LET name == CHOOSE name \in names : TRUE
          IN ArticlesFile(source_name,
                          [ i \in DOMAIN docs[name] |-> ArticleOf[docs[name][i], clock] ])

\* the documents a fetch of the other feed can return
OtherDocuments == { d \in RssDocuments : Len(d) <= MaxOther }

\* the documents the fetches of one collection return, feed by feed
FetchedDocuments(feeds) ==
  { [ name \in feeds |-> IF name \in FeedNames THEN d ELSE o ] :
      d \in RssDocuments,
      o \in IF feeds \cap OtherFeedNames = {} THEN { << >> } ELSE OtherDocuments }

\* run_full_pipeline, step 1 (collect_all_content) with the RSS feeds feeds
\* enabled and one YouTube channel, whose videos file no later step reads;
\* rss_feeds are the source names of the results with success
CollectAllContent(feeds) ==
  /\ run.stage \in { "idle", "done" }
  /\ \E docs \in FetchedDocuments(feeds), youtube_successful \in 0..1 :
       /\ rssFile' = FileAfter(rssFile, OpenAiSource, feeds, docs)
       /\ otherFile' = FileAfter(otherFile, OtherSource, feeds, docs)
       /\ run' = [ NoRun EXCEPT
                     !.stage = "collected",
                     !.rss_feeds = { SourceNameOf[name] : name \in { n \in feeds : docs[n] # << >> } },
                     !.youtube_successful = youtube_successful ]
  /\ last' = Returned("collect", "results", FALSE)
  /\ prevFeed' = feedFile
  /\ UNCHANGED << feedFile, clock >>

\* the merge called as the first statement of the run
MergeMayStart_BeforeCollection(stage) == stage \in { "idle", "collected" }

\* lines 231-234: integrate_all_content is the statement after
\* collect_all_content, which has returned the results of all its sources
MergeMayStart(stage) == stage = "collected"

\* run_full_pipeline, step 2 (integrate_all_content): the value of
\* integrate_rss_to_content_feed, False when it raises
IntegrateAllContent ==
  /\ MergeMayStart(run.stage)
  /\ IntegrateWith(rssFile, FALSE)
  /\ run' = [ run EXCEPT !.stage = "integrated",
                         !.integration_success = (last'.ret = "True") ]
  /\ UNCHANGED << rssFile, otherFile >>

\* line 264: overall_success
OverallSuccess(rss_successful, youtube_successful, integration_success, summary_success) ==
  /\ (rss_successful > 0 \/ youtube_successful > 0)
  /\ integration_success
  /\ summary_success

\* the enrichment called when the merge succeeded only
SummariesMayStart_AfterSuccess(pipeline) ==
  pipeline.stage = "integrated" /\ pipeline.integration_success

\* lines 234-237: generate_summaries is the statement after
\* integrate_all_content, under no condition on its value
SummariesMayStart(pipeline) == pipeline.stage = "integrated"

\* run_full_pipeline, step 3 (generate_summaries) and the result: True when
\* the configuration disables summarization, else the value of
\* summarize_rss_articles, False when it raises
GenerateSummaries ==
  /\ SummariesMayStart(run)
  /\ \/ summarize_rss_articles
     \/ /\ last' = Returned("disabled", "True", FALSE)
        /\ prevFeed' = feedFile
        /\ UNCHANGED << feedFile, rssFile, clock >>
  /\ LET summary_success == (last'.ret = "True")
     IN run' = [ run EXCEPT
                   !.stage = "done",
                   !.summary_success = summary_success,
                   !.overall_success =
                      OverallSuccess(Cardinality(run.rss_feeds), run.youtube_successful,
                                     run.integration_success, summary_success) ]
  /\ UNCHANGED otherFile

\* the enabled feeds and channels in the order of the configuration
EnabledFeeds ==
  << << "O", "p", "e", "n", "A", "I" >>, << "A", "I", " ", "N", "e", "w", "s" >> >>

EnabledChannels == << << "F", "i", "r", "e", "s", "h", "i", "p" >> >>

\* what one call of collect_from_feed meets: the document the fetch returns
\* ("ok"), an error fetch_rss_feed catches and answers with no articles
\* ("error"), or an exception that leaves the adapter ("raise")
FeedOutcomes(documents) ==
  { [ fetch |-> "ok", doc |-> d ] : d \in documents }
    \cup { [ fetch |-> kind, doc |-> << >> ] : kind \in { "error", "raise" } }

\* the same for collect_from_channel, doc the numbers of the videos found
ChannelOutcomes ==
  { [ fetch |-> "ok", doc |-> [ i \in 1..n |-> i ] ] : n \in 0..MaxVideos }
    \cup { [ fetch |-> kind, doc |-> << >> ] : kind \in { "error", "raise" } }

\* the adapter returns the path of the file it wrote, else None
OutputFile(outcome) == outcome.fetch = "ok" /\ outcome.doc # << >>

\* the sources the loops of lines 73 and 128 abort at the first exception,
\* were the body not in a try
Attempted_AbortOnRaise(outcomes) ==
  LET raising == { i \in DOMAIN outcomes : outcomes[i].fetch = "raise" }
  IN IF raising = {} THEN Len(outcomes)
     ELSE CHOOSE i \in raising : \A j \in raising : i <= j

\* the number of sources the loops of lines 73 and 128 process: the body is
\* in a try, an exception ends the iteration only
Attempted(outcomes) == Len(outcomes)

\* lines 87-109 / 142-165: the entry of results for one source
SourceResult(name, outcome) ==
  [ name    |-> name,
    success |-> OutputFile(outcome),
    error   |-> IF OutputFile(outcome) THEN "<none>"
                ELSE IF outcome.fetch = "raise" THEN "str(e)"
                ELSE "Collection failed" ]

\* _collect_rss_feeds and _collect_youtube_channels: the list of results
SourceResults(sources, outcomes) ==
  [ i \in 1..Attempted(outcomes) |-> SourceResult(sources[i], outcomes[i]) ]

\* the documents of which collect_from_feed writes an articles file
WrittenDocuments(outcomes) ==
  [ name \in { EnabledFeeds[i] : i \in 1..Attempted(outcomes) } |->
      LET i == CHOOSE i \in DOMAIN EnabledFeeds : EnabledFeeds[i] = name
      IN IF OutputFile(outcomes[i]) THEN outcomes[i].doc ELSE << >> ]

\* collect_all_content with the two feeds and the channel enabled;
\* youtube_collector is None when the constructor found no API key
CollectSources ==
  /\ run.stage = "idle"
  /\ \E first \in FeedOutcomes(RssDocuments), second \in FeedOutcomes(OtherDocuments),
        channel \in ChannelOutcomes, youtube_collector \in BOOLEAN :
       LET rss      == << first, second >>
           youtube  == IF youtube_collector THEN << channel >> ELSE << >>
           docs     == WrittenDocuments(rss)
           rss_feeds        == SourceResults(EnabledFeeds, rss)
           youtube_channels == SourceResults(EnabledChannels, youtube)
       IN /\ rssFile' = FileAfter(rssFile, OpenAiSource, DOMAIN docs, docs)
          /\ otherFile' = FileAfter(otherFile, OtherSource, DOMAIN docs, docs)
          /\ run' = [ NoRun EXCEPT
                        !.stage = "collected",
                        !.rss_feeds = { SourceNameOf[rss_feeds[i].name] :
                                          i \in { j \in DOMAIN rss_feeds : rss_feeds[j].success } },
                        !.youtube_successful =
                           Cardinality({ j \in DOMAIN youtube_channels :
                                           youtube_channels[j].success }),
                        !.results = [ rss_feeds |-> rss_feeds,
                                      youtube_channels |-> youtube_channels ],
                        !.fetched = [ youtube_collector |-> youtube_collector,
                                      rss_feeds |-> rss,
                                      youtube_channels |-> youtube ] ]
  /\ last' = Returned("collect", "results", FALSE)
  /\ prevFeed' = feedFile
  /\ UNCHANGED << feedFile, clock >>

\* main, line 283: the constructor raises (ConfigLoader finds no
\* configuration) before the pipeline begins
ConstructorRaises ==
  /\ run.stage = "idle"
  /\ run' = [ run EXCEPT !.stage = "raised" ]
  /\ UNCHANGED << feedFile, rssFile, clock, last, prevFeed, otherFile >>

\* main, lines 284-295, and the end of the script: main prints what
\* run_full_pipeline returned or the exception it caught and returns, no
\* statement sets an exit status, the interpreter ends with status 0
Main ==
  /\ run.stage \in { "done", "raised" }
  /\ run' = [ run EXCEPT
                !.stage = IF run.stage = "done" THEN "exited" ELSE "exited_after_error",
                !.exit_code = 0 ]
  /\ UNCHANGED << feedFile, rssFile, clock, last, prevFeed, otherFile >>

(* ---------------------------- specification ---------------------------- *)
Init ==
  /\ feedFile = NoFeedFile
  /\ rssFile = NoRssFile
  /\ clock = 0
  /\ last = Returned("start", "None", FALSE)
  /\ prevFeed = NoFeedFile
  /\ otherFile = NoOtherFile
  /\ run = NoRun

\* datetime.now() returns a later value from here on
Tick ==
  /\ clock < MaxClock
  /\ clock' = clock + 1
  /\ UNCHANGED << feedFile, rssFile, last, prevFeed, otherFile, run >>

\* pipeline runs: collection and merge, then the enrichment pass
Next ==
  \/ Tick
  \/ CollectAndIntegrate
  \/ Summarize

Spec == Init /\ [][Next]_vars

\* the collector and the integrator run on their own, in any order
NextMerge ==
  \/ Tick
  \/ Collect
  \/ Integrate

SpecMerge == Init /\ [][NextMerge]_vars

\* the same with articles files that lack keys
NextMalformed ==
  \/ Tick
  \/ Collect
  \/ StageMalformed
  \/ Integrate

SpecMalformed == Init /\ [][NextMalformed]_vars

\* a run begins with the feed file an earlier run or the migration left, or
\* with none
InitPersisted ==
  /\ feedFile \in PersistedFeeds \cup { NoFeedFile }
  /\ rssFile = NoRssFile
  /\ clock = 0
  /\ last = Returned("start", "None", FALSE)
  /\ prevFeed = feedFile
  /\ otherFile = NoOtherFile
  /\ run = NoRun

\* enrichment passes on that feed file
NextEnrich ==
  \/ Tick
  \/ Summarize

SpecEnrich == InitPersisted /\ [][NextEnrich]_vars

\* the collection and the merge, and the enrichment pass, killed in the write
\* of the feed file
CrashInMerge ==
  \E name \in FeedNames, doc \in RssDocuments :
    /\ rssFile' = CollectedFile(name, doc)
    /\ IntegrateSaving(CollectedFile(name, doc), FALSE, TRUE)
    /\ UNCHANGED << otherFile, run >>

CrashInEnrichment ==
  /\ SummarizeSaving(TRUE)
  /\ UNCHANGED << otherFile, run >>

\* runs of which any can be killed while it writes the feed file
NextCrash ==
  \/ Tick
  \/ CollectAndIntegrate
  \/ Summarize
  \/ CrashInMerge
  \/ CrashInEnrichment

SpecCrash == Init /\ [][NextCrash]_vars

\* one pipeline run with the one feed enabled, on the feed file it finds
StartPipeline ==
  /\ run.stage = "idle"
  /\ CollectAllContent(FeedNames)

NextPipeline ==
  \/ Tick
  \/ StartPipeline
  \/ IntegrateAllContent
  \/ GenerateSummaries

SpecPipeline == InitPersisted /\ [][NextPipeline]_vars

\* pipeline runs with the two feeds enabled, all of them at the one time of
\* the clock
NextFeeds ==
  \/ CollectAllContent(FeedNames \cup OtherFeedNames)
  \/ IntegrateAllContent
  \/ GenerateSummaries

SpecFeeds == Init /\ [][NextFeeds]_vars

\* enrichment passes on a persisted feed of which any can be interrupted
NextCancel ==
  \/ Tick
  \/ Summarize
  \/ SummarizeInterrupted

SpecCancel == InitPersisted /\ [][NextCancel]_vars

\* one pipeline run from no feed file, the collection source by source
NextRun ==
  \/ Tick
  \/ CollectSources
  \/ IntegrateAllContent
  \/ GenerateSummaries

SpecRun == Init /\ [][NextRun]_vars

\* every operation that writes the feed file, from no feed file, all of them
\* at the one time of the clock
NextWriters ==
  \/ Migrate
  \/ CollectAndIntegrate
  \/ Summarize
  \/ SaveVideoSummary

SpecWriters == Init /\ [][NextWriters]_vars

\* one pipeline run on the feed file it finds, with an articles file of
\* which an article can lack a key when the merge reads it
NextFailing ==
  \/ StartPipeline
  \/ StageMalformed
  \/ IntegrateAllContent
  \/ GenerateSummaries

SpecFailing == InitPersisted /\ [][NextFailing]_vars

\* the script unified_collector.py, run once on the feed file it finds
NextMain ==
  \/ StartPipeline
  \/ IntegrateAllContent
  \/ GenerateSummaries
  \/ ConstructorRaises
  \/ Main

SpecMain == InitPersisted /\ [][NextMain]_vars

\* one collection from the two feeds and the channel, source by source
NextSources ==
  \/ Tick
  \/ CollectSources

SpecSources == Init /\ [][NextSources]_vars


(* ------------------------------ properties ----------------------------- *)
\* the last operation was a merge run
Merged == last.op = "integrate"

\* the last operation was a merge run that wrote the feed
Inserted == Merged /\ feedFile # prevFeed

NoDuplicateIds(items) == Len(items) = Cardinality(Ids(items))

\* the items of a sequence that carry the id, in their order
WithId(items, id) == SelectSeq(items, LAMBDA x : x.id = id)

\* the number of items that stand for the source article guid
CountOf(items, guid) == Cardinality({ i \in DOMAIN items : items[i].guid = guid })

\* the instant a published_at string denotes: the local hour less the zone
\* offset; a string without offset is an hour of the collector's clock
Instant(published_at) ==
  IF Len(published_at) = 3 /\ published_at[2] = "+"
  THEN DigitVal(published_at[1]) - DigitVal(published_at[3])
  ELSE IF Len(published_at) = 3 /\ published_at[2] = "-"
  THEN DigitVal(published_at[1]) + DigitVal(published_at[3])
  ELSE DigitVal(published_at[1])

\* C1: a merge run that follows a merge run of the same articles file leaves
\* the feed as the first run left it, with no id twice and total_items as it
\* was.
C1_MergeTwice ==
  (Merged /\ last.again) =>
     /\ feedFile = prevFeed
     /\ NoDuplicateIds(feedFile.items)
     /\ feedFile.total_items = prevFeed.total_items

\* C2: a merge run on a feed of unique ids leaves a feed of unique ids,
\* whatever the batch.
C2_UniqueIds ==
  (Merged /\ NoDuplicateIds(prevFeed.items)) => NoDuplicateIds(feedFile.items)

\* C3: after a merge run that inserted an item, each item is published no
\* earlier than the item that follows it, published_at taken as an instant
\* (stated for the feeds without a repeated id, where C2 is not at issue).
C3_NewestFirst ==
  (Inserted /\ NoDuplicateIds(feedFile.items)) =>
     \A i \in 1..(Len(feedFile.items) - 1) :
        Instant(feedFile.items[i].published_at)
          >= Instant(feedFile.items[i + 1].published_at)

\* C4: after a merge run that inserted an item, two adjacent items of equal
\* published_at are in ascending order of id.
C4_TiesByAscendingId ==
  Inserted =>
     \A i \in 1..(Len(feedFile.items) - 1) :
        feedFile.items[i].published_at = feedFile.items[i + 1].published_at
          => StrLeq(feedFile.items[i].id, feedFile.items[i + 1].id)

\* C5: a merge run leaves the items stored under an id of the feed as they
\* were, every field of them, and adds no item under that id, also when the
\* batch has an article of that id with another title or description.
C5_InsertOnly ==
  Merged =>
     \A id \in Ids(prevFeed.items) :
        WithId(feedFile.items, id) = WithId(prevFeed.items, id)

\* C5 witness: a merge run returned True on a batch with an article whose id
\* is the id of a stored item of another title.
C5_Witness ==
  /\ Merged
  /\ last.ret = "True"
  /\ \E i \in DOMAIN rssFile.articles, j \in DOMAIN prevFeed.items :
        /\ unified_id(rssFile.source_name, rssFile.articles[i]) = prevFeed.items[j].id
        /\ rssFile.articles[i].title # prevFeed.items[j].title
        /\ rssFile.articles[i].description # prevFeed.items[j].description

\* C6: total_items of the feed file is the number of its items.
C6_TotalItems ==
  feedFile.state = "ok" => feedFile.total_items = Len(feedFile.items)

\* C6 witness: an enrichment pass has rewritten a feed of two merged items.
C6_Witness ==
  /\ last.op = "summarize"
  /\ last.ret = "True"
  /\ feedFile # prevFeed
  /\ Len(feedFile.items) = 2

\* C7: a merge run or an enrichment pass keeps every id of the feed, as many
\* times as it was there.
C7_NoDeletion ==
  last.op \in { "integrate", "summarize" } =>
     \A id \in Ids(prevFeed.items) :
        Len(WithId(feedFile.items, id)) >= Len(WithId(prevFeed.items, id))

\* C7 witness: a merge run has inserted into a feed that had an item.
C7_Witness ==
  /\ Inserted
  /\ prevFeed.items # << >>
  /\ Len(feedFile.items) > Len(prevFeed.items)

\* C8: two articles of different links never get the same feed id.
C8_InjectiveIds ==
  \A i, j \in DOMAIN rssFile.articles :
     LET a == rssFile.articles[i]
         b == rssFile.articles[j]
     IN (a.missing = {} /\ b.missing = {} /\ a.url # b.url)
          => unified_id(rssFile.source_name, a) # unified_id(rssFile.source_name, b)

\* C9 as claimed: a merge run adds no entry for a source article that has an
\* entry in the feed.
C9_NoSecondEntry ==
  Merged =>
     \A j \in DOMAIN prevFeed.items :
        CountOf(feedFile.items, prevFeed.items[j].guid)
          = CountOf(prevFeed.items, prevFeed.items[j].guid)

\* C9 as amended: an article with a link gets the id in the batch that its
\* entry has in the feed, and a merge run adds no entry for it.
C9_NoSecondEntryWithLink ==
  Merged =>
     /\ \A j \in DOMAIN prevFeed.items :
           prevFeed.items[j].url # NoLink
             => CountOf(feedFile.items, prevFeed.items[j].guid)
                  = CountOf(prevFeed.items, prevFeed.items[j].guid)
     /\ \A i \in DOMAIN rssFile.articles, j \in DOMAIN feedFile.items :
           LET a == rssFile.articles[i]
           IN (a.guid = feedFile.items[j].guid /\ a.url # NoLink /\ "article_id" \notin a.missing)
                => unified_id(rssFile.source_name, a) = feedFile.items[j].id

\* C9 witness: a merge run returned True on a batch that holds an article
\* with a link whose entry was written to the feed at an earlier time.
C9_Witness ==
  /\ Merged
  /\ last.ret = "True"
  /\ prevFeed.generated_at < clock
  /\ \E i \in DOMAIN rssFile.articles, j \in DOMAIN prevFeed.items :
        /\ rssFile.articles[i].guid = prevFeed.items[j].guid
        /\ rssFile.articles[i].url # NoLink
        /\ rssFile.articles[i].missing = {}

BatchFile(source_name) == IF source_name = OpenAiSource THEN rssFile ELSE otherFile

\* C11: after the merge step of a pipeline run has succeeded, every article
\* of every batch the run collected is in the feed under its id.
C11_MergeCompleteness ==
  (run.stage = "integrated" /\ run.integration_success) =>
     \A source_name \in run.rss_feeds :
        \A i \in DOMAIN BatchFile(source_name).articles :
           unified_id(source_name, BatchFile(source_name).articles[i]) \in Ids(feedFile.items)


C13_PartialFailure ==
  (last.op = "summarize" /\ prevFeed.state = "ok") =>
     /\ Candidates(prevFeed.items) \subseteq last.called
     /\ \A y, z \in Candidates(prevFeed.items) :
           (y \notin last.ok /\ z \in last.ok) =>
              /\ feedFile.items[y].ai_summary = NoSummary
              /\ feedFile.items[y].summarized_at = NoTime
              /\ feedFile.items[z].ai_summary \in Summaries
              /\ feedFile.items[z].summarized_at # NoTime

\* C13 witness: a pass in which the provider failed for a candidate and had
\* a summary for a later one, which the feed file holds.
C13_Witness ==
  /\ last.op = "summarize"
  /\ \E y, z \in last.called :
        /\ y \notin last.ok
        /\ z \in last.ok
        /\ y < z
        /\ feedFile.items[z].ai_summary \in Summaries

\* C14: an item that has a summary when an enrichment pass begins is not
\* passed to the provider, and its summary and summarized_at are after the
\* pass what they were.
C14_SummarizedUntouched ==
  (last.op = "summarize" /\ prevFeed.state = "ok") =>
     \A i \in DOMAIN prevFeed.items :
        prevFeed.items[i].ai_summary # NoSummary =>
           /\ i \notin last.called
           /\ feedFile.items[i].id = prevFeed.items[i].id
           /\ feedFile.items[i].ai_summary = prevFeed.items[i].ai_summary
           /\ feedFile.items[i].summarized_at = prevFeed.items[i].summarized_at

\* C14 witness: a pass at a later time than the summary of an article wrote
\* the feed, the article with its summary in it.
C14_Witness ==
  /\ last.op = "summarize"
  /\ feedFile # prevFeed
  /\ \E i \in DOMAIN prevFeed.items :
        /\ prevFeed.items[i].platform = "rss"
        /\ prevFeed.items[i].ai_summary # NoSummary
        /\ prevFeed.items[i].summarized_at < clock

\* the ids of the items that have a summary
WithSummary(feed) ==
  { feed.items[i].id : i \in { j \in DOMAIN feed.items : feed.items[j].ai_summary # NoSummary } }

\* C15: the items with a summary before an enrichment pass are among the
\* items with a summary after it, whatever the provider did.
C15_MonotoneEnrichment ==
  last.op = "summarize" => WithSummary(prevFeed) \subseteq WithSummary(feedFile)

\* C15 witness: a pass in which every call of the provider failed, on a feed
\* with an item that has a summary.
C15_Witness ==
  /\ last.op = "summarize"
  /\ WithSummary(prevFeed) # {}
  /\ last.called # {}
  /\ last.ok = {}


\* a source has collected something in the pipeline run
CollectedSomething == Cardinality(run.rss_feeds) > 0 \/ run.youtube_successful > 0

\* C16: the overall success of a finished pipeline run is that a source
\* collected something and the merge with its save succeeded, whatever the
\* enrichment did.
C16_OverallSuccess ==
  run.stage = "done" =>
     run.overall_success = (CollectedSomething /\ run.integration_success)

\* C17: when the provider failed for some and not all of the candidates of a
\* pipeline run, the others have their summary in the feed file and the
\* overall success is what collection and merge make it.
C17_PartialFailureRun ==
  (run.stage = "done" /\ last.ok # {} /\ last.ok # last.called) =>
     /\ \A z \in last.ok : feedFile.items[z].ai_summary \in Summaries
     /\ run.summary_success
     /\ run.overall_success = (CollectedSomething /\ run.integration_success)

\* C17 witness: a pipeline run that collected and merged has finished with
\* one candidate failed and one summarized.
C17_Witness ==
  /\ run.stage = "done"
  /\ run.integration_success
  /\ Cardinality(run.rss_feeds) > 0
  /\ Cardinality(last.called) = 2
  /\ Cardinality(last.ok) = 1
  /\ run.overall_success


\* C18: a stage that finds no feed file does not fail on it: neither the
\* merge nor the enrichment pass is left by an exception.
C18_LoadMissing ==
  (last.op \in { "integrate", "summarize" } /\ prevFeed.state = "absent") =>
     last.ret # "raise"

\* C19: after a run was killed while it saved the feed, the feed file is a
\* complete document, the one before the save or the one saved.
C19_AtomicSave ==
  last.ret = "killed" => feedFile.state # "torn"

\* the feed file holds a feed within the invariants of the data model: no id
\* twice, total_items the number of items, the items newest first
ValidFeed(feed) ==
  /\ NoDuplicateIds(feed.items)
  /\ feed.total_items = Len(feed.items)
  /\ \A i \in 1..(Len(feed.items) - 1) :
        Instant(feed.items[i].published_at) >= Instant(feed.items[i + 1].published_at)

\* C20: a stage that finds a feed file that is no complete document, or a
\* feed outside the invariants, fails and leaves the file as it is.
C20_FailClosed ==
  (/\ last.op \in { "integrate", "summarize" }
   /\ \/ prevFeed.state = "torn"
      \/ prevFeed.state = "ok" /\ ~ValidFeed(prevFeed)) =>
     /\ feedFile = prevFeed
     /\ last.ret \in { "False", "raise" }


\* a collection source by source has returned
CollectedSources == run.stage = "collected" /\ run.fetched.rss_feeds # << >>

\* the articles file of the feed name holds the articles of the document doc
HoldsArticles(name, doc) ==
  \E now \in 0..MaxClock :
     BatchFile(SourceNameOf[name]) =
        ArticlesFile(SourceNameOf[name], [ i \in DOMAIN doc |-> ArticleOf[doc[i], now] ])

\* C21: whatever the other sources met, failure or exception, a collection
\* has one result for every enabled feed and every enabled channel, the
\* result of a source says what that source itself met, and the articles
\* file of every feed that delivered articles is written.
C21_SourceIsolation ==
  CollectedSources =>
     LET results == run.results
         fetched == run.fetched
     IN /\ Len(results.rss_feeds) = Len(EnabledFeeds)
        /\ fetched.youtube_collector =>
              Len(results.youtube_channels) = Len(EnabledChannels)
        /\ \A i \in DOMAIN results.rss_feeds :
              /\ results.rss_feeds[i].name = EnabledFeeds[i]
              /\ results.rss_feeds[i].success = OutputFile(fetched.rss_feeds[i])
              /\ (results.rss_feeds[i].error = "str(e)") = (fetched.rss_feeds[i].fetch = "raise")
              /\ OutputFile(fetched.rss_feeds[i])
                    => HoldsArticles(EnabledFeeds[i], fetched.rss_feeds[i].doc)
        /\ \A i \in DOMAIN results.youtube_channels :
              /\ results.youtube_channels[i].name = EnabledChannels[i]
              /\ results.youtube_channels[i].success = OutputFile(fetched.youtube_channels[i])

\* the first feed raised, and the second feed and the channel were collected
C21_Witness ==
  /\ CollectedSources
  /\ run.fetched.rss_feeds[1].fetch = "raise"
  /\ run.results.rss_feeds[1].error = "str(e)"
  /\ run.results.rss_feeds[2].success
  /\ otherFile.state = "ok"
  /\ Len(run.results.youtube_channels) = 1
  /\ run.results.youtube_channels[1].success

\* C22: a source that was reached and has no items is not among the failed
\* sources: its result carries no error.
C22_EmptyIsNotFailure ==
  CollectedSources =>
     /\ \A i \in DOMAIN run.results.rss_feeds :
           (run.fetched.rss_feeds[i].fetch = "ok" /\ run.fetched.rss_feeds[i].doc = << >>)
              => run.results.rss_feeds[i].error = "<none>"
     /\ \A i \in DOMAIN run.results.youtube_channels :
           (run.fetched.youtube_channels[i].fetch = "ok"
              /\ run.fetched.youtube_channels[i].doc = << >>)
              => run.results.youtube_channels[i].error = "<none>"

\* C23: the script ends with status 0 when run_full_pipeline returned overall
\* success, and with another status when it returned failure or an
\* exception was caught.
C23_ExitCode ==
  run.stage \in { "exited", "exited_after_error" } =>
     ((run.exit_code = 0) <=> (run.stage = "exited" /\ run.overall_success))

\* C24: when an enrichment pass is interrupted after it attached summaries
\* and before it processed the remaining candidates, the feed file is a
\* whole document and holds the summaries attached so far.
C24_CancelKeepsProgress ==
  (last.op = "summarize" /\ last.ret = "interrupted" /\ last.ok # {}) =>
     /\ feedFile.state = "ok"
     /\ \A i \in last.ok : /\ i \in DOMAIN feedFile.items
                           /\ feedFile.items[i].ai_summary # NoSummary

\* C25: in a pipeline run the merge step begins when the collection has a
\* result for every enabled feed and channel, and the enrichment pass loads
\* the feed file as the merge step left it, so every item the merge inserted
\* in the run is passed to the provider.
C25_StageOrdering ==
  [][ /\ (run'.stage = "integrated" /\ run.stage # "integrated") =>
            /\ Len(run.results.rss_feeds) = Len(EnabledFeeds)
            /\ run.fetched.youtube_collector =>
                  Len(run.results.youtube_channels) = Len(EnabledChannels)
      /\ (run.stage = "integrated" /\ last'.op = "summarize") =>
            /\ last.op = "integrate"
            /\ prevFeed' = feedFile
            /\ \A i \in DOMAIN feedFile.items :
                  feedFile.items[i].id \notin Ids(prevFeed.items) => i \in last'.called
    ]_vars

\* a run in which a feed raised, the merge inserted the articles of the
\* other and the pass passed all of them to the provider
C25_Witness ==
  /\ run.stage = "done"
  /\ last.op = "summarize"
  /\ run.fetched.rss_feeds[2].fetch = "raise"
  /\ prevFeed.items # << >>
  /\ last.called = DOMAIN prevFeed.items

\* C26: an enrichment pass changes of the feed's items only the summary and
\* summarized_at of the items the provider returned a summary for: the feed
\* has the same number of items with the same ids in the same order and the
\* same total_items, an item with a returned summary differs in these two
\* fields alone, and every other item is what it was.
C26_EnrichmentFrame ==
  (last.op = "summarize" /\ last.ret \in { "True", "False" } /\ prevFeed.state = "ok") =>
     /\ Len(feedFile.items) = Len(prevFeed.items)
     /\ feedFile.total_items = prevFeed.total_items
     /\ \A i \in DOMAIN prevFeed.items :
          IF i \in last.called \cap last.ok
          THEN /\ feedFile.items[i].ai_summary \in Summaries
               /\ feedFile.items[i].summarized_at # NoTime
               /\ feedFile.items[i] =
                    [ prevFeed.items[i] EXCEPT
                        !.ai_summary = feedFile.items[i].ai_summary,
                        !.summarized_at = feedFile.items[i].summarized_at ]
          ELSE feedFile.items[i] = prevFeed.items[i]

\* a pass wrote the summary of one item of a feed of several, among them a
\* candidate the provider failed for
C26_Witness ==
  /\ last.op = "summarize"
  /\ last.ret = "True"
  /\ Cardinality(last.called \cap last.ok) = 1
  /\ last.called \ last.ok # {}
  /\ feedFile.items # prevFeed.items

\* C27: in every feed that the migration, merge runs, enrichment passes and
\* the summary save of one video produce from no feed, an item has a summary
\* exactly when it has a summarized_at, and the items a merge run has just
\* inserted have neither.
C27_SummaryIffSummarizedAt ==
  /\ \A i \in DOMAIN feedFile.items :
        (feedFile.items[i].ai_summary # NoSummary) <=> (feedFile.items[i].summarized_at # NoTime)
  /\ Inserted =>
        \A i \in DOMAIN feedFile.items :
           feedFile.items[i].id \notin Ids(prevFeed.items) =>
              /\ feedFile.items[i].ai_summary = NoSummary
              /\ feedFile.items[i].summarized_at = NoTime

\* the summary save of the video has written a feed that holds an article a
\* merge run inserted and a pass summarized
C27_Witness ==
  /\ last.op = "ai_summarizer"
  /\ last.ret = "saved"
  /\ \E i \in DOMAIN feedFile.items :
        feedFile.items[i].platform = "rss" /\ feedFile.items[i].ai_summary # NoSummary

C29_WriteIffSummarized ==
  (last.op = "summarize" /\ prevFeed.state = "ok") =>
     LET candidates == Candidates(prevFeed.items)
         done       == last.called \cap last.ok
     IN /\ last.ret \in { "True", "False" }
        /\ (feedFile # prevFeed) <=> (done # {})
        /\ (last.ret = "True") <=> (candidates = {} \/ done # {})
        /\ (last.ret = "False") <=> (candidates # {} /\ done = {})
        /\ last.ret = "False" => feedFile = prevFeed

\* a pass in which the provider failed for each of two candidates
C29_Witness ==
  /\ last.op = "summarize"
  /\ last.ret = "False"
  /\ Cardinality(last.called) = 2
  /\ last.ok = {}
  /\ feedFile = prevFeed

\* C30: when the merge step of a pipeline run returned False or raised, the
\* enrichment step can run and is the step that ends the run: the pass loads
\* the feed file, passes its candidates to the provider and saves the feed
\* when a candidate was summarized, and the overall success is False.
C30_EnrichmentAfterFailedMerge ==
  /\ (run.stage = "integrated" /\ ~run.integration_success) => ENABLED GenerateSummaries
  /\ (run.stage = "done" /\ ~run.integration_success) =>
        /\ last.op \in { "summarize", "disabled" }
        /\ ~run.overall_success
        /\ (last.op = "summarize" /\ prevFeed.state = "ok") =>
              /\ last.called = Candidates(prevFeed.items)
              /\ (last.called \cap last.ok # {}) => feedFile # prevFeed

\* a run whose merge raised on the articles file the collection wrote has
\* ended with a pass that saved a summary
C30_Witness ==
  /\ run.stage = "done"
  /\ ~run.integration_success
  /\ rssFile.state = "ok"
  /\ last.op = "summarize"
  /\ last.ok # {}
  /\ feedFile # prevFeed

=============================================================================
